---------------------------- MODULE Spec2Model ----------------------------
(* A model of the `validate` crate: the statistics of src/src/stats.rs,    *)
(* the built-in validators (SeriesValidator, ScatterValidator,             *)
(* ValidatorWrapper), the CustomValidator of the tests, and the Validator  *)
(* that runs a batch of validations and writes the report.                 *)
(*                                                                         *)
(* Numbers.  An f64 is modelled as an exact fraction [n, d] with d > 0, or *)
(* as one of the three non-finite values, which have d = 0: NaN is 0/0,    *)
(* +inf is 1/0 and -inf is -1/0.  On the small integer inputs of the model *)
(* every sum and product the code forms is exact in f64, so the fraction   *)
(* is the value the code computes up to the rounding of its divisions;     *)
(* signed zeros are not modelled.                                          *)
(*                                                                         *)
(* Text.  A String is modelled as the sequence of its lines, each line a   *)
(* record; the empty String is << >>.  format!("{}...", s, ...) appends    *)
(* to s, which is \o on the sequences.                                     *)
EXTENDS Integers, Sequences, FiniteSets, TLC

VARIABLES
    pc,           \* Validator lifecycle: "start", "ready", "aborted"
    title,        \* Validator.title
    target_file,  \* Validator.target_file
    validations,  \* Validator.validations, in push order
    file,         \* what the report destination holds
    stderr,       \* the lines eprintln! has emitted, oldest first
    result,       \* what the last Validator::validate() returned
    calls,        \* the validations the last run invoked, in invocation order
    runs,         \* the number of validate() runs so far
    log,          \* the effects of the last validate() run, in program order
    self,         \* unit specifications: the object or arguments under test
    out           \* unit specifications: what the call returned

vars == <<pc, title, target_file, validations, file, stderr, result, calls,
          runs, log, self, out>>

aggVars == <<pc, title, target_file, validations, file, stderr, result, calls, runs,
             log>>

-----------------------------------------------------------------------------
(* Bounds of the model *)

\* the longest dataset of the unit specifications
MaxLen == 3
\* the dataset elements of the unit specifications are 0..MaxVal (and NaN)
MaxVal == 1
\* the most validations pushed into one Validator
MaxPush == 3
\* the most runs of Validator::validate() on one Validator
MaxRuns == 2

-----------------------------------------------------------------------------
(* f64 arithmetic (the operations Numberish requires of T) *)

Abs(i) == IF i < 0 THEN -i ELSE i

Sign(i) == IF i < 0 THEN -1 ELSE IF i > 0 THEN 1 ELSE 0

RECURSIVE Gcd(_, _)
Gcd(a, b) == IF b = 0 THEN a ELSE Gcd(b, a % b)

\* the fraction n/d, d > 0, in lowest terms
Norm(n, d) == LET g == Gcd(Abs(n), d) IN [n |-> n \div g, d |-> d \div g]

Num(i) == [n |-> i, d |-> 1]

Frac(n, d) == Norm(n, d)

NaN == [n |-> 0, d |-> 0]

Inf(s) == [n |-> s, d |-> 0]

is_it_nan(a) == a.d = 0 /\ a.n = 0

IsFinite(a) == a.d > 0

FNeg(a) == [n |-> -a.n, d |-> a.d]

FAbs(a) == [n |-> Abs(a.n), d |-> a.d]

FAdd(a, b) ==
    IF is_it_nan(a) \/ is_it_nan(b) THEN NaN
    ELSE IF a.d = 0 /\ b.d = 0 THEN (IF a.n = b.n THEN a ELSE NaN)
    ELSE IF a.d = 0 THEN a
    ELSE IF b.d = 0 THEN b
    ELSE Norm(a.n * b.d + b.n * a.d, a.d * b.d)

FSub(a, b) == FAdd(a, FNeg(b))

FMul(a, b) ==
    IF is_it_nan(a) \/ is_it_nan(b) THEN NaN
    ELSE IF a.d = 0 \/ b.d = 0
         THEN (IF a.n = 0 \/ b.n = 0 THEN NaN ELSE Inf(Sign(a.n) * Sign(b.n)))
    ELSE Norm(a.n * b.n, a.d * b.d)

FDiv(a, b) ==
    IF is_it_nan(a) \/ is_it_nan(b) THEN NaN
    ELSE IF a.d = 0 /\ b.d = 0 THEN NaN
    ELSE IF a.d = 0 THEN Inf(IF b.n < 0 THEN -a.n ELSE a.n)
    ELSE IF b.d = 0 THEN Num(0)
    ELSE IF b.n = 0 THEN (IF a.n = 0 THEN NaN ELSE Inf(Sign(a.n)))
    ELSE Norm(a.n * b.d * Sign(b.n), a.d * Abs(b.n))

\* a < b of PartialOrd: false as soon as one side is NaN
FLt(a, b) ==
    IF is_it_nan(a) \/ is_it_nan(b) THEN FALSE
    ELSE IF a.d = 0 THEN a.n = -1 /\ b # a
    ELSE IF b.d = 0 THEN b.n = 1
    ELSE a.n * b.d < b.n * a.d

FGt(a, b) == FLt(b, a)

\* the value the digits of format!("{:.4}", a) denote: a to four decimals,
\* ties to even
Fmt4(a) ==
    IF a.d = 0 THEN a
    ELSE LET m == Abs(a.n) * 10000
             q == m \div a.d
             r == m % a.d
             up == (2 * r > a.d) \/ (2 * r = a.d /\ q % 2 = 1)
         IN  Norm(Sign(a.n) * (IF up THEN q + 1 ELSE q), 10000)

-----------------------------------------------------------------------------
(* Option<T>: None is << >>, Some(v) is <<v>> *)

None == << >>

Some(v) == <<v>>

is_some(o) == Len(o) = 1

-----------------------------------------------------------------------------
(* src/src/stats.rs.  A call either returns a value or panics. *)

Val(v) == [tag |-> "val", v |-> v, msg |-> ""]

Panic(m) == [tag |-> "panic", v |-> NaN, msg |-> m]

IsPanic(r) == r.tag = "panic"

I32_MAX == 2147483647

\* a usize is wider than the integers of the checker: it is kept as the
\* pair (hi, lo) that stands for hi * 2^31 + lo, with lo in 0..I32_MAX
USize(hi, lo) == [hi |-> hi, lo |-> lo]

\* x.len()
len(x) == USize(0, Len(x))

\* n_usize > m, for m in 0..I32_MAX
usize_gt(n_usize, m) == n_usize.hi > 0 \/ n_usize.lo > m

\* n_usize as i32: the low 32 bits, read in two's complement
as_i32(n_usize) ==
    IF n_usize.hi % 2 = 0 THEN n_usize.lo ELSE n_usize.lo - I32_MAX - 1

\* a try_into_t without the test of line 26
try_into_t_unchecked(n_usize) == Val(Num(as_i32(n_usize)))

try_into_t(n_usize) ==
    IF usize_gt(n_usize, I32_MAX) THEN Panic("TooManySamples")
    ELSE Val(Num(as_i32(n_usize)))

\* s.iter().fold(0.0, |acc, item| acc + item)
RECURSIVE Sum(_)
Sum(s) == IF s = << >> THEN Num(0)
          ELSE FAdd(Sum(SubSeq(s, 1, Len(s) - 1)), s[Len(s)])

Min2(a, b) == IF a < b THEN a ELSE b

\* x.iter().zip(y.iter()).map(|(x, y)| *x * *y)
ZipMul(x, y) == [i \in 1..Min2(Len(x), Len(y)) |-> FMul(x[i], y[i])]

\* x.iter().zip(y.iter()).map(|(x, y)| *y - *x)
ZipDiff(x, y) == [i \in 1..Min2(Len(x), Len(y)) |-> FSub(y[i], x[i])]

Squares(s) == [i \in 1..Len(s) |-> FMul(s[i], s[i])]

mean(x) ==
    IF Len(x) = 0 THEN Panic("EmptyDataset")
    ELSE LET n == try_into_t(len(x))
         IN  IF IsPanic(n) THEN n ELSE Val(FDiv(Sum(x), n.v))

\* a linear_coefficients that never divides by zero: it answers a degenerate
\* x (no spread) with the line y = x
linear_coefficients_guarded(x, y) ==
    IF Len(x) # Len(y) THEN Panic("LengthMismatch")
    ELSE IF Len(x) = 0 THEN Panic("EmptyDataset")
    ELSE LET n == Num(Len(x))
             ss_x == Sum(x)
             ss_y == Sum(y)
             ss_xy == Sum(ZipMul(x, y))
             spread == FSub(Sum(Squares(x)), FDiv(FMul(ss_x, ss_x), n))
             b == FDiv(FSub(ss_xy, FDiv(FMul(ss_x, ss_y), n)), spread)
             cov == FSub(FMul(n, ss_xy), FMul(ss_x, ss_y))
         IN  IF spread = Num(0)
             THEN [tag |-> "val", v |-> <<Num(0), Num(1), Num(1)>>, msg |-> ""]
             ELSE [tag |-> "val",
                   v |-> <<FDiv(FSub(ss_y, FMul(b, ss_x)), n), b,
                           FDiv(FMul(cov, cov),
                                FMul(FSub(FMul(n, Sum(Squares(x))), FMul(ss_x, ss_x)),
                                     FSub(FMul(n, Sum(Squares(y))),
                                          FMul(ss_y, ss_y))))>>,
                   msg |-> ""]

\* a linear_coefficients whose slope divides by the spread of y instead of x
linear_coefficients_over_y(x, y) ==
    IF Len(x) # Len(y) THEN Panic("LengthMismatch")
    ELSE IF Len(x) = 0 THEN Panic("EmptyDataset")
    ELSE LET n == Num(Len(x))
             ss_x == Sum(x)
             ss_y == Sum(y)
             ss_xy == Sum(ZipMul(x, y))
             b == FDiv(FSub(ss_xy, FDiv(FMul(ss_x, ss_y), n)),
                       FSub(Sum(Squares(y)), FDiv(FMul(ss_y, ss_y), n)))
             cov == FSub(FMul(n, ss_xy), FMul(ss_x, ss_y))
         IN  [tag |-> "val",
              v |-> <<FDiv(FSub(ss_y, FMul(b, ss_x)), n), b,
                      FDiv(FMul(cov, cov),
                           FMul(FSub(FMul(n, Sum(Squares(x))), FMul(ss_x, ss_x)),
                                FSub(FMul(n, Sum(Squares(y))), FMul(ss_y, ss_y))))>>,
              msg |-> ""]

linear_coefficients(x, y) ==
    IF Len(x) # Len(y) THEN Panic("LengthMismatch")
    ELSE IF Len(x) = 0 THEN Panic("EmptyDataset")
    ELSE LET nn == try_into_t(len(x))
         IN  IF IsPanic(nn) THEN nn
             ELSE LET n == nn.v
                      ss_x == Sum(x)
                      ss_xx == Sum(Squares(x))
                      ss_y == Sum(y)
                      ss_yy == Sum(Squares(y))
                      ss_xy == Sum(ZipMul(x, y))
                      b == FDiv(FSub(ss_xy, FDiv(FMul(ss_x, ss_y), n)),
                                FSub(ss_xx, FDiv(FMul(ss_x, ss_x), n)))
                      a == FDiv(FSub(ss_y, FMul(b, ss_x)), n)
                      cov == FSub(FMul(n, ss_xy), FMul(ss_x, ss_y))
                      rsquared ==
                          FDiv(FMul(cov, cov),
                               FMul(FSub(FMul(n, ss_xx), FMul(ss_x, ss_x)),
                                    FSub(FMul(n, ss_yy), FMul(ss_y, ss_y))))
                  IN  [tag |-> "val", v |-> <<a, b, rsquared>>, msg |-> ""]

\* a root_mean_squared_error without the assertion on the lengths: the zip
\* stops at the shorter slice
root_mean_squared_error_zip(x, y) ==
    IF Len(x) = 0 THEN Panic("EmptyDataset")
    ELSE Val(FDiv(Sum(Squares(ZipDiff(x, y))), Num(Len(x))))

\* the body after the assertions: squared_error / n, and no square root
root_mean_squared_error(x, y) ==
    IF Len(x) # Len(y) THEN Panic("LengthMismatch")
    ELSE IF Len(x) = 0 THEN Panic("EmptyDataset")
    ELSE LET n == try_into_t(len(x))
             d == ZipDiff(x, y)
             squared_error == Sum(Squares(d))
         IN  IF IsPanic(n) THEN n ELSE Val(FDiv(squared_error, n.v))

\* a mean_bias_error that forgets to subtract x
mean_bias_error_of_y(x, y) ==
    IF Len(x) # Len(y) THEN Panic("LengthMismatch")
    ELSE IF Len(x) = 0 THEN Panic("EmptyDataset")
    ELSE Val(FDiv(Sum(y), Num(Len(x))))

\* a mean_bias_error that subtracts the other way round
mean_bias_error_reversed(x, y) ==
    IF Len(x) # Len(y) THEN Panic("LengthMismatch")
    ELSE IF Len(x) = 0 THEN Panic("EmptyDataset")
    ELSE Val(FDiv(Sum(ZipDiff(y, x)), Num(Len(x))))

mean_bias_error(x, y) ==
    IF Len(x) # Len(y) THEN Panic("LengthMismatch")
    ELSE IF Len(x) = 0 THEN Panic("EmptyDataset")
    ELSE LET n == try_into_t(len(x))
             bias_error == Sum(ZipDiff(x, y))
         IN  IF IsPanic(n) THEN n ELSE Val(FDiv(bias_error, n.v))

\* f32::MAX, the start of the running minimum (and, negated, of the running
\* maximum).  3.4e38 is beyond TLC's integers: the model keeps a finite value
\* above every element it draws.
F32_MAX == 1000000

\* the loop of min_max from position i on, with the running (min, max)
RECURSIVE MinMaxFrom(_, _, _, _)
MinMaxFrom(x, i, min, max) ==
    IF i > Len(x) THEN [tag |-> "val", v |-> <<min, max>>, msg |-> ""]
    ELSE IF is_it_nan(x[i]) THEN Panic("InvalidValue")
    ELSE MinMaxFrom(x, i + 1,
                    IF FLt(x[i], min) THEN x[i] ELSE min,
                    IF FGt(x[i], max) THEN x[i] ELSE max)

min_max(x) ==
    IF Len(x) = 0 THEN Panic("EmptyDataset")
    ELSE MinMaxFrom(x, 1, Num(F32_MAX), Num(-F32_MAX))

-----------------------------------------------------------------------------
(* ValidationResult, and what a call of Validate::validate() can do.  An   *)
(* outcome is Ok(txt), Err(txt, err) or a panic; `stats` lists the         *)
(* functions of crate::stats the call entered, in order.                   *)

Line(text, args) == [h |-> 0, line |-> text, args |-> args]

\* a Markdown heading of level h
Heading(h, text) == [h |-> h, line |-> text, args |-> << >>]

Ok(txt, stats) == [tag |-> "Ok", txt |-> txt, err |-> << >>, msg |-> "", stats |-> stats]

Err(txt, err, stats) ==
    [tag |-> "Err", txt |-> txt, err |-> err, msg |-> "", stats |-> stats]

Panicked(m, stats) ==
    [tag |-> "panic", txt |-> << >>, err |-> << >>, msg |-> m, stats |-> stats]

is_err(r) == r.tag = "Err"

is_ok(r) == ~(r.tag = "Err")

\* "Series to compare have different lengths. expected.len() = {}, found.len() = {}"
DifferentLengths(expected, found) ==
    <<Line("Series to compare have different lengths",
           <<Num(Len(expected)), Num(Len(found))>>)>>

-----------------------------------------------------------------------------
(* src/src/time_series.rs *)

SeriesValidator(expected, found, mbe, rmse) ==
    [kind |-> "series", expected |-> expected, found |-> found,
     allowed_mean_bias_error |-> mbe, allowed_root_mean_squared_error |-> rmse]

\* lines 96-106: the Mean Bias Error check appends to err_msg
SeriesCheckMbe(v, err_msg, mean_bias_error_) ==
    IF is_some(v.allowed_mean_bias_error)
       /\ FGt(FAbs(mean_bias_error_), v.allowed_mean_bias_error[1])
    THEN err_msg \o <<Line("Mean Bias Error is greater than the allowed value",
                           <<Fmt4(FAbs(mean_bias_error_)),
                             Fmt4(v.allowed_mean_bias_error[1])>>)>>
    ELSE err_msg

\* lines 107-116: the Root Mean Squared Error check appends to err_msg
SeriesCheckRmse(v, err_msg, root_mean_squared_error_) ==
    IF is_some(v.allowed_root_mean_squared_error)
       /\ FGt(FAbs(root_mean_squared_error_), v.allowed_root_mean_squared_error[1])
    THEN err_msg \o <<Line("Mean Root Squared Error is greater than the allowed value",
                           <<Fmt4(root_mean_squared_error_),
                             Fmt4(v.allowed_root_mean_squared_error[1])>>)>>
    ELSE err_msg

\* lines 93-167, once both indicators are known
SeriesReport(v, mbe, rmse, stats) ==
    LET file_msg == <<Line("Mean Bias Error", <<Fmt4(mbe)>>),
                      Line("Root Mean Squared Error", <<Fmt4(rmse)>>)>>
        nchecks == (IF is_some(v.allowed_mean_bias_error) THEN 1 ELSE 0)
                   + (IF is_some(v.allowed_root_mean_squared_error) THEN 1 ELSE 0)
        err_msg == SeriesCheckRmse(v, SeriesCheckMbe(v, << >>, mbe), rmse)
        show_err == IF nchecks = 0 THEN <<Line("No checks performed...", << >>)>>
                    ELSE IF err_msg = << >> THEN <<Line("No errors found", << >>)>>
                    ELSE err_msg
        file_ == file_msg \o <<Heading(4, "Errors:")>> \o show_err
                 \o <<Heading(4, "Data:"), Line("plot expected", v.expected),
                      Line("plot found", v.found)>>
    IN  IF err_msg # << >> THEN Err(file_, err_msg, stats) ELSE Ok(file_, stats)

\* a SeriesValidator::validate without the comparison of the lengths
SeriesValidateUnchecked(v) ==
    LET mbe == mean_bias_error(v.expected, v.found)
        rmse == root_mean_squared_error(v.expected, v.found)
    IN  IF IsPanic(mbe) THEN Panicked(mbe.msg, <<"try_into_t", "mean_bias_error">>)
        ELSE IF IsPanic(rmse)
             THEN Panicked(rmse.msg, <<"try_into_t", "mean_bias_error",
                                       "root_mean_squared_error">>)
        ELSE SeriesReport(v, mbe.v, rmse.v,
                          <<"try_into_t", "mean_bias_error", "root_mean_squared_error">>)

SeriesValidate(v) ==
    IF Len(v.expected) # Len(v.found)
    THEN Err(DifferentLengths(v.expected, v.found),
             DifferentLengths(v.expected, v.found), << >>)
    ELSE LET n == try_into_t(len(v.expected))
             mbe == mean_bias_error(v.expected, v.found)
             rmse == root_mean_squared_error(v.expected, v.found)
         IN  IF IsPanic(n) THEN Panicked(n.msg, <<"try_into_t">>)
             ELSE IF IsPanic(mbe)
                  THEN Panicked(mbe.msg, <<"try_into_t", "mean_bias_error">>)
             ELSE IF IsPanic(rmse)
                  THEN Panicked(rmse.msg, <<"try_into_t", "mean_bias_error",
                                            "root_mean_squared_error">>)
             ELSE SeriesReport(v, mbe.v, rmse.v,
                               <<"try_into_t", "mean_bias_error",
                                 "root_mean_squared_error">>)

-----------------------------------------------------------------------------
(* src/src/scatter.rs *)

ScatterValidator(expected, found, r2, idelta, eintersect, sdelta, eslope) ==
    [kind |-> "scatter", expected |-> expected, found |-> found,
     allowed_r2 |-> r2,
     allowed_intersect_delta |-> idelta, expected_intersect |-> eintersect,
     allowed_slope_delta |-> sdelta, expected_slope |-> eslope]

\* an R2 check that treats allowed_r2 as a ceiling
ScatterCheckR2Ceiling(v, err_msg, r2) ==
    IF is_some(v.allowed_r2) /\ FGt(r2, v.allowed_r2[1])
    THEN err_msg \o <<Line("R2 is lower than the allowed value",
                           <<Fmt4(r2), Fmt4(v.allowed_r2[1])>>)>>
    ELSE err_msg

\* an R2 check that fails unless R2 reaches the allowed value: a NaN fails
ScatterCheckR2Reached(v, err_msg, r2) ==
    IF is_some(v.allowed_r2) /\ ~(FGt(r2, v.allowed_r2[1]) \/ r2 = v.allowed_r2[1])
    THEN err_msg \o <<Line("R2 is lower than the allowed value",
                           <<Fmt4(r2), Fmt4(v.allowed_r2[1])>>)>>
    ELSE err_msg

\* lines 92-100: the R2 check appends to err_msg
ScatterCheckR2(v, err_msg, r2) ==
    IF is_some(v.allowed_r2) /\ FLt(r2, v.allowed_r2[1])
    THEN err_msg \o <<Line("R2 is lower than the allowed value",
                           <<Fmt4(r2), Fmt4(v.allowed_r2[1])>>)>>
    ELSE err_msg

\* lines 102-118: the intersect check appends to err_msg
ScatterCheckIntersect(v, err_msg, intersect) ==
    LET expected_intersect ==
            IF is_some(v.expected_intersect) THEN v.expected_intersect[1] ELSE Num(0)
        delta == FAbs(FSub(intersect, expected_intersect))
    IN  IF is_some(v.allowed_intersect_delta)
           /\ FGt(delta, v.allowed_intersect_delta[1])
        THEN err_msg \o <<Line("Intersect difference is higher than the allowed value",
                               <<Fmt4(intersect), Fmt4(expected_intersect), Fmt4(delta),
                                 Fmt4(v.allowed_intersect_delta[1])>>)>>
        ELSE err_msg

\* lines 120-136: the slope check appends to err_msg
ScatterCheckSlope(v, err_msg, slope) ==
    LET expected_slope ==
            IF is_some(v.expected_slope) THEN v.expected_slope[1] ELSE Num(1)
        delta == FAbs(FSub(slope, expected_slope))
    IN  IF is_some(v.allowed_slope_delta) /\ FGt(delta, v.allowed_slope_delta[1])
        THEN err_msg \o <<Line("Slope difference is higher than the allowed value",
                               <<Fmt4(slope), Fmt4(expected_slope), Fmt4(delta),
                                 Fmt4(v.allowed_slope_delta[1])>>)>>
        ELSE err_msg

\* checks that stop at the first threshold violated
ScatterChecksFirstOnly(v, intersect, slope, r2) ==
    LET e1 == ScatterCheckR2(v, << >>, r2)
        e2 == ScatterCheckIntersect(v, << >>, intersect)
    IN  IF e1 # << >> THEN e1
        ELSE IF e2 # << >> THEN e2
        ELSE ScatterCheckSlope(v, << >>, slope)

\* lines 91-136: the three checks, in the order of the code
ScatterChecks(v, intersect, slope, r2) ==
    ScatterCheckSlope(v,
        ScatterCheckIntersect(v, ScatterCheckR2(v, << >>, r2), intersect),
        slope)

\* lines 138-195, once the fit and the maximum of `expected` are known
ScatterReport(v, intersect, slope, r2, max_x, stats) ==
    LET fit_msg == <<Line("Fit", <<Fmt4(intersect), Fmt4(slope)>>),
                     Line("R2", <<Fmt4(r2)>>)>>
        err_msg == ScatterChecks(v, intersect, slope, r2)
        show_err == IF err_msg = << >> THEN <<Line("None", << >>)>> ELSE err_msg
        file_ == fit_msg \o <<Heading(4, "Errors:")>> \o show_err
                 \o <<Heading(4, "Data:"), Line("plot expected", v.expected),
                      Line("plot found", v.found),
                      Line("plot fit", <<Num(0), intersect, max_x,
                                         FAdd(intersect, FMul(max_x, slope))>>),
                      Line("plot expected_fit", <<Num(0), Num(0), max_x, max_x>>)>>
    IN  IF err_msg # << >> THEN Err(file_, err_msg, stats) ELSE Ok(file_, stats)

ScatterValidate(v) ==
    IF Len(v.expected) # Len(v.found)
    THEN Err(DifferentLengths(v.expected, v.found),
             DifferentLengths(v.expected, v.found), << >>)
    ELSE LET fit == linear_coefficients(v.expected, v.found)
             mm == min_max(v.expected)
         IN  IF IsPanic(fit) THEN Panicked(fit.msg, <<"linear_coefficients">>)
             ELSE IF IsPanic(mm)
                  THEN Panicked(mm.msg, <<"linear_coefficients", "min_max">>)
             ELSE ScatterReport(v, fit.v[1], fit.v[2], fit.v[3], mm.v[2],
                                <<"linear_coefficients", "min_max">>)

-----------------------------------------------------------------------------
(* src/tests/custom_validator.rs: the CustomValidator of the crate's       *)
(* documentation, a user-written implementation of Validate                *)

CustomValidator(expected, found) ==
    [kind |-> "custom", cexpected |-> expected, cfound |-> found,
     ctitle |-> "Check that 2 and 3 are equal"]

CustomValidate(v) ==
    IF v.cexpected = v.cfound
    THEN Ok(<<Heading(2, v.ctitle),
              Line("Passed! are equal", <<Num(v.cexpected), Num(v.cfound)>>)>>, << >>)
    ELSE LET err == <<Line("aren't equal", <<Num(v.cexpected), Num(v.cfound)>>)>>
             ret == <<Heading(1, v.ctitle),
                      Line("Failed... aren't equal",
                           <<Num(v.cexpected), Num(v.cfound)>>)>>
         IN  Err(err, ret, << >>)

-----------------------------------------------------------------------------
(* src/src/validator_wrapper.rs.  `val` is the validator the factory       *)
(* function builds each time it is called.                                 *)

ValidatorWrapper(wtitle, description, val) ==
    [kind |-> "wrapper", wtitle |-> wtitle, description |-> description, val |-> val]

format_description(w, txt) ==
    <<Heading(2, w.wtitle), Line(w.description, << >>), Heading(4, "Indicators")>>
    \o txt

\* a wrapper that reports every outcome of the inner validate() as Ok
WrapOutcomeSwallowed(w, inner) ==
    IF inner.tag \in {"Ok", "Err"}
    THEN Ok(format_description(w, inner.txt), inner.stats)
    ELSE inner

\* ValidatorWrapper::validate, given the outcome of the inner validate()
WrapOutcome(w, inner) ==
    IF inner.tag = "Ok" THEN Ok(format_description(w, inner.txt), inner.stats)
    ELSE IF inner.tag = "Err"
         THEN Err(format_description(w, inner.txt), inner.err, inner.stats)
    ELSE inner

\* v.validate() through the Validate trait object
RECURSIVE Validate(_)
Validate(v) ==
    CASE v.kind = "series" -> SeriesValidate(v)
      [] v.kind = "scatter" -> ScatterValidate(v)
      [] v.kind = "custom" -> CustomValidate(v)
      [] v.kind = "wrapper" -> WrapOutcome(v, Validate(v.val))

-----------------------------------------------------------------------------
(* Datasets of the unit specifications *)

Vals == {Num(i) : i \in 0..MaxVal}

SeqsUpTo(S, k) == UNION {[1..m -> S] : m \in 0..k}

\* every dataset of numbers up to MaxLen, and those with one NaN in front
Data == SeqsUpTo(Vals, MaxLen)
        \cup {<<NaN>> \o d : d \in SeqsUpTo(Vals, 1)}

-----------------------------------------------------------------------------
(* SpecStats: the statistics called on every pair of bounded datasets *)

NoOut == [fn |-> "none", ret |-> Panic("")]

NoResult == [tag |-> "none", msg |-> ""]

FileState(state, doctitle, body) == [state |-> state, doctitle |-> doctitle, body |-> body]

\* the Validator part of the state while a unit specification runs
AggIdle ==
    /\ pc = "start"
    /\ title = ""
    /\ target_file = ""
    /\ validations = << >>
    /\ file = FileState("absent", "", << >>)
    /\ stderr = << >>
    /\ result = NoResult
    /\ calls = << >>
    /\ runs = 0
    /\ log = << >>

\* the pairs of the documentation: stats.rs lines 115 and 122-123 (the
\* examples of linear_coefficients), and a pair of constant residual 2
DocPairs ==
    {[x |-> <<Num(1), Num(2), Num(3), Num(4)>>, y |-> <<Num(1), Num(2), Num(3), Num(4)>>],
     [x |-> <<Num(1), Num(2), Num(3), Num(4)>>, y |-> <<Num(6), Num(2), Num(1), Num(0)>>],
     [x |-> <<Num(0), Num(0)>>, y |-> <<Num(2), Num(2)>>]}

StatsInit ==
    /\ AggIdle
    /\ self \in [x : Data, y : Data] \cup DocPairs
    /\ out = NoOut

CallRmse ==
    /\ out.fn = "none"
    /\ out' = [fn |-> "root_mean_squared_error",
               ret |-> root_mean_squared_error(self.x, self.y)]
    /\ UNCHANGED <<aggVars, self>>

CallMbe ==
    /\ out.fn = "none"
    /\ out' = [fn |-> "mean_bias_error", ret |-> mean_bias_error(self.x, self.y)]
    /\ UNCHANGED <<aggVars, self>>

CallMean ==
    /\ out.fn = "none"
    /\ out' = [fn |-> "mean", ret |-> mean(self.x)]
    /\ UNCHANGED <<aggVars, self>>

\* a SeriesValidator without thresholds over the same pair: x is `expected`
\* and y is `found`
CallSeries ==
    /\ out.fn = "none"
    /\ out' = [fn |-> "SeriesValidator",
               ret |-> SeriesValidate(SeriesValidator(self.x, self.y, None, None))]
    /\ UNCHANGED <<aggVars, self>>

CallMinMax ==
    /\ out.fn = "none"
    /\ out' = [fn |-> "min_max", ret |-> min_max(self.x)]
    /\ UNCHANGED <<aggVars, self>>

CallLinear ==
    /\ out.fn = "none"
    /\ out' = [fn |-> "linear_coefficients", ret |-> linear_coefficients(self.x, self.y)]
    /\ UNCHANGED <<aggVars, self>>

StatsNext == CallRmse \/ CallMbe \/ CallMean \/ CallSeries \/ CallMinMax \/ CallLinear

SpecStats == StatsInit /\ [][StatsNext]_vars

-----------------------------------------------------------------------------
(* SpecMinMax: min_max called on datasets that also hold elements beyond   *)
(* the range of f32 (finite ones, written against F32_MAX, and infinite)   *)

Extremes == {Num(2 * F32_MAX), Num(-2 * F32_MAX), Inf(1), Inf(-1)}

MinMaxData == SeqsUpTo(Vals \cup Extremes \cup {NaN}, MaxLen)

MinMaxInit ==
    /\ AggIdle
    /\ self \in [x : MinMaxData, y : {<< >>}]
    /\ out = NoOut

SpecMinMax == MinMaxInit /\ [][CallMinMax]_vars

-----------------------------------------------------------------------------
(* SpecValidate: one built-in validator, over every pair of bounded        *)
(* datasets and every choice of thresholds, validated directly and through *)
(* a ValidatorWrapper                                                      *)

SeriesThresholds == {None, Some(Num(-1)), Some(Frac(1, 2))}

ScatterThresholds ==
    [r2 : {None, Some(Frac(1, 2))},
     idelta : {None, Some(Frac(1, 4))},
     sdelta : {None, Some(Frac(1, 2))}]

ValidateInit ==
    /\ AggIdle
    /\ out = NoOut
    /\ \E e \in Data, f \in Data :
          \/ \E m \in SeriesThresholds, r \in SeriesThresholds :
                self = SeriesValidator(e, f, m, r)
          \/ \E t \in ScatterThresholds :
                self = ScatterValidator(e, f, t.r2, t.idelta, None, t.sdelta, None)

RunValidate ==
    /\ out.fn = "none"
    /\ out' = [fn |-> "validate", ret |-> Validate(self)]
    /\ UNCHANGED <<aggVars, self>>

RunWrapped ==
    /\ out.fn = "none"
    /\ out' = [fn |-> "wrapper",
               ret |-> Validate(ValidatorWrapper("Some Title", "The Description", self))]
    /\ UNCHANGED <<aggVars, self>>

ValidateNext == RunValidate \/ RunWrapped

SpecValidate == ValidateInit /\ [][ValidateNext]_vars

-----------------------------------------------------------------------------
(* SpecScatter: one ScatterValidator over every pair of bounded datasets,  *)
(* each threshold unset or set, with the expected value unset or set       *)

\* (allowed delta, expected value) of the intersect and of the slope
IntersectSettings ==
    {<<None, None>>, <<Some(Frac(1, 10)), None>>, <<Some(Frac(1, 10)), Some(Frac(1, 2))>>}

SlopeSettings ==
    {<<None, None>>, <<Some(Frac(1, 10)), None>>, <<Some(Frac(1, 10)), Some(Frac(-1, 2))>>}

ScatterInit ==
    /\ AggIdle
    /\ out = NoOut
    /\ \E e \in Data, f \in Data, r2 \in {None, Some(Num(1))},
          i \in IntersectSettings, sl \in SlopeSettings :
          self = ScatterValidator(e, f, r2, i[1], i[2], sl[1], sl[2])

SpecScatter == ScatterInit /\ [][RunValidate]_vars

-----------------------------------------------------------------------------
(* src/src/lib.rs: Validator *)

Ints(s) == [i \in 1..Len(s) |-> Num(s[i])]

\* the validations pushed: those of the crate's own tests and documentation,
\* and the degenerate datasets (empty, NaN, unequal lengths)
Catalog ==
    LET perfect == Ints(<<1, 2, 3, 4>>)
        noisy == Ints(<<1, 6, -1, 4>>)
        tenth == Some(Frac(1, 10))
        doc == SeriesValidator(Ints(<<1, 2, 3>>), Ints(<<5, 6, 6>>), None, None)
    IN  { \* tests/series_validator.rs, and validator_wrapper.rs: test_wrapper
          doc,
          ValidatorWrapper("Some Title", "The Description", doc),
          \* time_series.rs: test_series_perfect_fail
          SeriesValidator(perfect, perfect, tenth, Some(Frac(-1, 10))),
          \* scatter.rs: test_scatter_perfect, test_scatter_not_correlated_fail
          ScatterValidator(perfect, perfect, None, None, None, None, None),
          ScatterValidator(perfect, noisy, Some(Frac(82, 100)), tenth,
                           Some(Frac(39, 10)), tenth, Some(Frac(139, 10))),
          \* tests/custom_validator.rs, with found = 3
          CustomValidator(2, 3),
          \* degenerate datasets
          SeriesValidator(<< >>, << >>, None, None),
          ScatterValidator(<<NaN, Num(1)>>, Ints(<<1, 2>>), None, None, None, None, None),
          SeriesValidator(Ints(<<1, 2>>), Ints(<<1>>), None, None) }

Titles == {"Test Validation"}

Targets == {"report.html"}

\* the closure of lines 343-352 applied to validations[i..], after `calls`
\* were invoked and with `txt` and `errors` collected so far; a panic of
\* validations[i] ends the iteration
RECURSIVE RunFrom(_, _, _, _, _)
RunFrom(vs, i, calls_, txt, errors) ==
    IF i > Len(vs)
    THEN [calls |-> calls_, txt |-> txt, errors |-> errors, panic |-> ""]
    ELSE LET r == Validate(vs[i])
         IN  IF r.tag = "panic"
             THEN [calls |-> Append(calls_, i), txt |-> txt, errors |-> errors,
                   panic |-> r.msg]
             ELSE IF r.tag = "Err"
                  THEN RunFrom(vs, i + 1, Append(calls_, i), Append(txt, r.txt),
                               Append(errors, r.err))
             ELSE RunFrom(vs, i + 1, Append(calls_, i), Append(txt, r.txt), errors)

\* a join that leaves out the fragments after the first
JoinFirstOnly(txt) == IF txt = << >> THEN << >> ELSE Head(txt)

\* txt.join("\n")
RECURSIVE Join(_)
Join(txt) == IF txt = << >> THEN << >> ELSE Head(txt) \o Join(Tail(txt))

\* format!("# {}\n\n{}", self.title, txt.join("\n"))
Document(title_, txt) == <<Heading(1, title_)>> \o Join(txt)

\* a push_html into a buffer that still holds the previous report
push_html_accumulating(md) ==
    (IF file.state = "written" THEN file.body ELSE << >>)
    \o [i \in 1..Len(md) |->
           [el |-> IF md[i].h > 0 THEN "h" ELSE "li", level |-> md[i].h,
            text |-> md[i].line, args |-> md[i].args]]

\* html::push_html: every Markdown line becomes an HTML element
push_html(md) ==
    [i \in 1..Len(md) |->
        [el |-> IF md[i].h > 0 THEN "h" ELSE "li", level |-> md[i].h,
         text |-> md[i].line, args |-> md[i].args]]

SomeFailed == [tag |-> "Err", msg |-> "Some validations failed..."]

\* a Verdict whose failure carries the text of the last error summary
VerdictLastError(errors) ==
    IF errors = << >> THEN [tag |-> "Ok", msg |-> ""]
    ELSE [tag |-> "Err", msg |-> errors[Len(errors)][1].line]

\* a Verdict that returns the first error summary instead of the literal
VerdictFirstError(errors) ==
    IF errors = << >> THEN [tag |-> "Ok", msg |-> ""]
    ELSE [tag |-> "Err", msg |-> errors[1][1].line]

\* lines 376-383: the value validate() returns, given the collected errors
Verdict(errors) == IF errors = << >> THEN [tag |-> "Ok", msg |-> ""] ELSE SomeFailed

Init ==
    /\ pc = "start"
    /\ title = ""
    /\ target_file = ""
    /\ validations = << >>
    /\ file \in {FileState("absent", "", << >>), FileState("old", "", << >>),
                 FileState("unwritable", "", << >>)}
    /\ stderr = << >>
    /\ result = NoResult
    /\ calls = << >>
    /\ runs = 0
    /\ log = << >>
    /\ self = << >>
    /\ out = NoOut

\* a Validator::new that does not try the destination
NewUnchecked ==
    /\ pc = "start"
    /\ \E t \in Titles, f \in Targets :
          /\ pc' = "ready"
          /\ title' = t
          /\ target_file' = f
          /\ validations' = << >>
    /\ UNCHANGED <<file, result, stderr, calls, runs, log, self, out>>

\* Validator::new: File::create either fails (panic) or leaves an empty file;
\* it fails on a destination that cannot be opened or created for writing
New ==
    /\ pc = "start"
    /\ \E t \in Titles, f \in Targets, created \in {file.state # "unwritable"} :
          IF created
          THEN /\ pc' = "ready"
               /\ title' = t
               /\ target_file' = f
               /\ validations' = << >>
               /\ file' = FileState("empty", "", << >>)
               /\ UNCHANGED result
          ELSE /\ pc' = "aborted"
               /\ result' = [tag |-> "panic", msg |-> "Cannot write to file"]
               /\ UNCHANGED <<title, target_file, validations, file>>
    /\ UNCHANGED <<stderr, calls, runs, log, self, out>>

\* Validator::push
Push ==
    /\ pc = "ready"
    /\ Len(validations) < MaxPush
    /\ \E v \in Catalog : validations' = Append(validations, v)
    /\ UNCHANGED <<pc, title, target_file, file, stderr, result, calls, runs, log,
                    self, out>>

\* one effect of a run of Validator::validate()
Event(ev, i, e) == [ev |-> ev, i |-> i, e |-> e]

\* lines 340-353: validations[calls_[k]].validate() is called, one after the other
Invocations(calls_) == [k \in 1..Len(calls_) |-> Event("validate", calls_[k], << >>)]

\* an emission that pops the summaries off the end of `errors`
EmissionsPopped(errors) ==
    [k \in 1..Len(errors) |-> Event("eprintln", 0, errors[Len(errors) + 1 - k])]

\* lines 379-381: for e in errors { eprintln!("{}", e) }
Emissions(errors) == [k \in 1..Len(errors) |-> Event("eprintln", 0, errors[k])]

\* Validator::validate, the whole call.  `io` is what the file system does:
\* File::create fails, a write_all fails, or the report is written.
ValidatorValidate ==
    /\ pc = "ready"
    /\ runs < MaxRuns
    /\ runs' = runs + 1
    /\ \E r \in {RunFrom(validations, 1, << >>, << >>, << >>)} :
           /\ calls' = r.calls
           /\ IF r.panic # ""
              THEN /\ pc' = "aborted"
                   /\ result' = [tag |-> "panic", msg |-> r.panic]
                   /\ log' = Invocations(r.calls) \o <<Event("panic", 0, << >>)>>
                   /\ UNCHANGED <<file, stderr>>
              ELSE \E io \in {"ok", "create fails", "write fails"} :
                     IF io = "create fails"
                     THEN /\ pc' = "aborted"
                          /\ result' = [tag |-> "panic", msg |-> "create"]
                          /\ log' = Invocations(r.calls) \o <<Event("panic", 0, << >>)>>
                          /\ UNCHANGED <<file, stderr>>
                     ELSE IF io = "write fails"
                     THEN /\ pc' = "aborted"
                          /\ result' = [tag |-> "panic", msg |-> "write"]
                          /\ file' = FileState("partial", "", << >>)
                          /\ log' = Invocations(r.calls)
                                       \o <<Event("create", 0, << >>),
                                            Event("panic", 0, << >>)>>
                          /\ UNCHANGED stderr
                     ELSE /\ pc' = "ready"
                          /\ file' = FileState("written", title,
                                               push_html(Document(title, r.txt)))
                          /\ stderr' = stderr \o r.errors
                          /\ result' = Verdict(r.errors)
                          /\ log' = Invocations(r.calls)
                                       \o <<Event("create", 0, << >>),
                                            Event("write", 0, << >>)>>
                                       \o Emissions(r.errors)
                                       \o <<Event("return", 0, << >>)>>
    /\ UNCHANGED <<title, target_file, validations, self, out>>

Next == New \/ Push \/ ValidatorValidate

Spec == Init /\ [][Next]_vars

-----------------------------------------------------------------------------
(* Claims about Validator (specification Spec) *)

\* a step that is one call of Validator::validate()
IsRun == runs' = runs + 1

\* C1: a run of Validator::validate() that returns, returns Ok(()) if and
\* only if none of the pushed validations returned Err, and otherwise
\* Err("Some validations failed...") whatever the error summaries are.
C1_Verdict ==
    [][(IsRun /\ result'.tag \in {"Ok", "Err"}) =>
          /\ (result'.tag = "Ok") <=>
                (\A i \in 1..Len(validations) : ~is_err(Validate(validations[i])))
          /\ (result'.tag = "Err") => (result'.msg = "Some validations failed...")
      ]_vars

\* a single run with two failing validations has returned Err
C1_Witness == runs = 1 /\ result.tag = "Err" /\ Len(stderr) = 2 /\ Len(calls) = 3

\* C2: in every run of Validator::validate() each pushed validation is
\* invoked exactly once, in push order, and push only appends.
C2_EveryValidationInvokedOnce ==
    [][/\ IsRun => calls' = [i \in 1..Len(validations) |-> i]
       /\ (validations' # validations) =>
             /\ Len(validations') = Len(validations) + 1
             /\ SubSeq(validations', 1, Len(validations)) = validations
      ]_vars

\* the fragments of the validations vs[i..], in order, as one text
RECURSIVE FragmentsFrom(_, _)
FragmentsFrom(vs, i) ==
    IF i > Len(vs) THEN << >> ELSE Validate(vs[i]).txt \o FragmentsFrom(vs, i + 1)

\* C3: the report a run writes is the title heading followed by the
\* fragment of every pushed validation in push order, the fragment of an
\* Err (its first component) like that of an Ok.
C3_ReportBody ==
    [][(IsRun /\ result'.tag \in {"Ok", "Err"}) =>
          /\ file'.state = "written"
          /\ file'.body[1] = [el |-> "h", level |-> 1, text |-> title, args |-> << >>]
          /\ SubSeq(file'.body, 2, Len(file'.body))
                = push_html(FragmentsFrom(validations, 1))
      ]_vars

\* a failing run has written a report of three validations
C3_Witness ==
    /\ file.state = "written"
    /\ result.tag = "Err"
    /\ Len(calls) = 3
    /\ Len(validations) = 3
    /\ is_err(Validate(validations[1]))
    /\ is_ok(Validate(validations[3]))

\* the panics the statistics raise
StatisticsPanics == {"EmptyDataset", "LengthMismatch", "InvalidValue", "TooManySamples"}

\* C4: no precondition violation of the statistics aborts a run of
\* Validator::validate(): the built-in validator returns it as an Err.
C4_NoStatisticsAbort == ~(result.tag = "panic" /\ result.msg \in StatisticsPanics)

-----------------------------------------------------------------------------
(* Claims about the statistics (specification SpecStats) and about one     *)
(* validator (specification SpecValidate)                                  *)

\* the elements of s are whole numbers (neither NaN nor infinite)
Whole(s) == \A i \in 1..Len(s) : s[i].d = 1

\* sum of (y[i] - x[i]) over i..Len(x), on whole numbers
RECURSIVE DiffSum(_, _, _)
DiffSum(x, y, i) ==
    IF i > Len(x) THEN 0 ELSE (y[i].n - x[i].n) + DiffSum(x, y, i + 1)

\* sum of (y[i] - x[i])^2 over i..Len(x), on whole numbers
RECURSIVE SqDiffSum(_, _, _)
SqDiffSum(x, y, i) ==
    IF i > Len(x) THEN 0
    ELSE (y[i].n - x[i].n) * (y[i].n - x[i].n) + SqDiffSum(x, y, i + 1)

\* x and y are non-empty sequences of whole numbers of one length
Comparable(x, y) == Len(x) = Len(y) /\ Len(x) > 0 /\ Whole(x) /\ Whole(y)

\* C5: for non-empty equal-length x and y, the value r that
\* root_mean_squared_error(x, y) returns satisfies r >= 0 and
\* r * r = sum((y_i - x_i)^2) / n.
C5_RmseIsSquareRoot ==
    (out.fn = "root_mean_squared_error" /\ Comparable(self.x, self.y)) =>
        /\ out.ret.tag = "val"
        /\ ~FLt(out.ret.v, Num(0))
        /\ FMul(out.ret.v, out.ret.v)
              = Frac(SqDiffSum(self.x, self.y, 1), Len(self.x))

\* C6: mean_bias_error(x, y) returns sum(y_i - x_i) / n: positive when
\* every y_i is above x_i, negative when every y_i is below, zero when
\* x = y; and the Mean Bias Error a SeriesValidator reports is that of
\* x = expected, y = found.
C6_MeanBiasError ==
    /\ (out.fn = "mean_bias_error" /\ Comparable(self.x, self.y)) =>
          /\ out.ret.tag = "val"
          /\ out.ret.v = Frac(DiffSum(self.x, self.y, 1), Len(self.x))
          /\ (\A i \in 1..Len(self.x) : self.y[i].n > self.x[i].n) => out.ret.v.n > 0
          /\ (\A i \in 1..Len(self.x) : self.y[i].n < self.x[i].n) => out.ret.v.n < 0
          /\ (self.x = self.y) => out.ret.v = Num(0)
    /\ (out.fn = "SeriesValidator" /\ Comparable(self.x, self.y)) =>
          /\ out.ret.tag = "Ok"
          /\ out.ret.txt[1]
                = Line("Mean Bias Error",
                       <<Fmt4(Frac(DiffSum(self.x, self.y, 1), Len(self.x)))>>)

\* mean_bias_error has returned a negative bias: found is below expected
C6_Witness ==
    /\ out.fn = "mean_bias_error"
    /\ Len(self.x) = 3
    /\ out.ret.tag = "val"
    /\ out.ret.v.n < 0

\* the validator under test compares non-empty datasets of whole numbers
\* of one length
SelfComparable ==
    /\ self.kind \in {"series", "scatter"}
    /\ Comparable(self.expected, self.found)

\* |MBE| > allowed, on whole-number datasets
MbeViolated(v) ==
    /\ is_some(v.allowed_mean_bias_error)
    /\ FGt(FAbs(Frac(DiffSum(v.expected, v.found, 1), Len(v.expected))),
           v.allowed_mean_bias_error[1])

\* |RMSE| > allowed, on whole-number datasets: the root of the mean of the
\* squared differences is above `allowed` when `allowed` is negative or the
\* mean is above its square
RmseViolated(v) ==
    /\ is_some(v.allowed_root_mean_squared_error)
    /\ LET allowed == v.allowed_root_mean_squared_error[1]
           ms == Frac(SqDiffSum(v.expected, v.found, 1), Len(v.expected))
       IN  allowed.n < 0 \/ FGt(ms, FMul(allowed, allowed))

\* C7: for equal-length non-empty datasets SeriesValidator::validate()
\* returns Err if and only if |MBE| > allowed_mean_bias_error or
\* |RMSE| > allowed_root_mean_squared_error for a configured threshold.
C7_SeriesErrIffViolated ==
    (out.fn = "validate" /\ self.kind = "series" /\ SelfComparable) =>
        (is_err(out.ret) <=> (MbeViolated(self) \/ RmseViolated(self)))

\* the validator under test has no threshold configured
NoThresholds ==
    IF self.kind = "series"
    THEN ~is_some(self.allowed_mean_bias_error)
         /\ ~is_some(self.allowed_root_mean_squared_error)
    ELSE ~is_some(self.allowed_r2)
         /\ ~is_some(self.allowed_intersect_delta)
         /\ ~is_some(self.allowed_slope_delta)

\* C8: a SeriesValidator or ScatterValidator without thresholds over
\* non-empty equal-length datasets returns Ok, directly and through a
\* ValidatorWrapper.
C8_NoThresholdsOk ==
    (out.fn # "none" /\ NoThresholds
        /\ Len(self.expected) = Len(self.found) /\ Len(self.expected) > 0) =>
        out.ret.tag = "Ok"

\* C9: when expected and found differ in length, the validate() of a
\* SeriesValidator and of a ScatterValidator returns Err without entering
\* any statistic; the error summary names the two lengths and the report
\* fragment is that same text (behind the wrapper's heading when wrapped).
C9_LengthMismatchIsErr ==
    (out.fn # "none" /\ Len(self.expected) # Len(self.found)) =>
        /\ out.ret.tag = "Err"
        /\ out.ret.stats = << >>
        /\ out.ret.err
              = <<Line("Series to compare have different lengths",
                       <<Num(Len(self.expected)), Num(Len(self.found))>>)>>
        /\ out.ret.txt # << >>
        /\ (out.fn = "validate") => (out.ret.txt = out.ret.err)
        /\ (out.fn = "wrapper") =>
              (SubSeq(out.ret.txt, Len(out.ret.txt), Len(out.ret.txt)) = out.ret.err)

\* a ScatterValidator with thresholds has met datasets of lengths 3 and 2
C9_Witness ==
    /\ out.fn = "validate"
    /\ self.kind = "scatter"
    /\ is_some(self.allowed_r2)
    /\ Len(self.expected) = 3
    /\ Len(self.found) = 2
    /\ out.ret.tag = "Err"

\* the summaries of the thresholds of v that the fit (intersect, slope, r2)
\* violates, in the order R2, intersect, slope
ViolatedThresholds(v, intersect, slope, r2) ==
    LET ei == IF is_some(v.expected_intersect) THEN v.expected_intersect[1] ELSE Num(0)
        es == IF is_some(v.expected_slope) THEN v.expected_slope[1] ELSE Num(1)
    IN  (IF is_some(v.allowed_r2) /\ FLt(r2, v.allowed_r2[1])
         THEN <<"R2 is lower than the allowed value">> ELSE << >>)
        \o (IF is_some(v.allowed_intersect_delta)
               /\ FGt(FAbs(FSub(intersect, ei)), v.allowed_intersect_delta[1])
            THEN <<"Intersect difference is higher than the allowed value">>
            ELSE << >>)
        \o (IF is_some(v.allowed_slope_delta)
               /\ FGt(FAbs(FSub(slope, es)), v.allowed_slope_delta[1])
            THEN <<"Slope difference is higher than the allowed value">>
            ELSE << >>)

\* C10: the three threshold checks of ScatterValidator::validate() are
\* independent: the error summary has one entry for every violated
\* threshold, and the outcome is Err if and only if there is one.
C10_ScatterChecksIndependent ==
    (out.fn # "none" /\ self.kind = "scatter" /\ out.ret.tag \in {"Ok", "Err"}
        /\ Len(self.expected) = Len(self.found)) =>
        LET fit == linear_coefficients(self.expected, self.found).v
            violated == ViolatedThresholds(self, fit[1], fit[2], fit[3])
        IN  /\ [i \in 1..Len(out.ret.err) |-> out.ret.err[i].line] = violated
            /\ is_err(out.ret) <=> (violated # << >>)

\* a ScatterValidator has reported all three thresholds violated
C10_Witness ==
    /\ out.fn = "validate"
    /\ self.kind = "scatter"
    /\ out.ret.tag = "Err"
    /\ Len(out.ret.err) = 3

-----------------------------------------------------------------------------
(* Claims about ScatterValidator's thresholds (specification SpecScatter) *)

\* the summaries of the outcome r, as a set of their texts
Reported(r) == {r.err[i].line : i \in 1..Len(r.err)}

\* C11: ScatterValidator reports allowed_r2 violated exactly when
\* R2 < allowed_r2, allowed_intersect_delta exactly when
\* |intercept - expected_intersect| > allowed_intersect_delta (expected 0
\* when unset) and allowed_slope_delta exactly when
\* |slope - expected_slope| > allowed_slope_delta (expected 1 when unset);
\* a perfect 1:1 dataset with allowed_r2 = 1 and deltas 0.1 passes.
C11_FloorAndCeilings ==
    (out.fn = "validate" /\ out.ret.tag \in {"Ok", "Err"}
        /\ Len(self.expected) = Len(self.found)) =>
        LET fit == linear_coefficients(self.expected, self.found).v
            ei == IF self.expected_intersect = << >> THEN Num(0)
                  ELSE self.expected_intersect[1]
            es == IF self.expected_slope = << >> THEN Num(1)
                  ELSE self.expected_slope[1]
        IN  /\ ("R2 is lower than the allowed value" \in Reported(out.ret))
                  <=> /\ self.allowed_r2 # << >>
                      /\ FLt(fit[3], self.allowed_r2[1])
            /\ ("Intersect difference is higher than the allowed value"
                    \in Reported(out.ret))
                  <=> /\ self.allowed_intersect_delta # << >>
                      /\ FGt(FAbs(FSub(fit[1], ei)), self.allowed_intersect_delta[1])
            /\ ("Slope difference is higher than the allowed value"
                    \in Reported(out.ret))
                  <=> /\ self.allowed_slope_delta # << >>
                      /\ FGt(FAbs(FSub(fit[2], es)), self.allowed_slope_delta[1])
            /\ (/\ self.expected = self.found
                /\ self.allowed_r2 = <<Num(1)>>
                /\ self.allowed_intersect_delta = <<Frac(1, 10)>>
                /\ self.expected_intersect = << >>
                /\ self.allowed_slope_delta = <<Frac(1, 10)>>
                /\ self.expected_slope = << >>) => out.ret.tag = "Ok"

\* a perfect 1:1 dataset has passed allowed_r2 = 1 and both deltas 0.1
C11_Witness ==
    /\ out.fn = "validate"
    /\ self.expected = <<Num(0), Num(1), Num(0)>>
    /\ self.found = self.expected
    /\ self.allowed_r2 = <<Num(1)>>
    /\ self.allowed_intersect_delta = <<Frac(1, 10)>>
    /\ self.expected_intersect = << >>
    /\ self.allowed_slope_delta = <<Frac(1, 10)>>
    /\ self.expected_slope = << >>
    /\ out.ret.tag = "Ok"

-----------------------------------------------------------------------------
(* Claims about the preconditions and results of the statistics            *)
(* (specifications SpecStats and SpecMinMax)                               *)

Pairwise == {"linear_coefficients", "root_mean_squared_error", "mean_bias_error"}

\* C12: a pairwise statistic called with slices of unequal length fails
\* with LengthMismatch, and a statistic called with an empty slice (both
\* empty, for a pairwise one) fails with EmptyDataset; no such call
\* returns a value, whatever the elements are.
C12_PreconditionsFail ==
    /\ (out.fn \in Pairwise /\ Len(self.x) # Len(self.y)) =>
          (out.ret.tag = "panic" /\ out.ret.msg = "LengthMismatch")
    /\ (out.fn \in Pairwise /\ Len(self.x) = 0 /\ Len(self.y) = 0) =>
          (out.ret.tag = "panic" /\ out.ret.msg = "EmptyDataset")
    /\ (out.fn \in {"min_max", "mean"} /\ Len(self.x) = 0) =>
          (out.ret.tag = "panic" /\ out.ret.msg = "EmptyDataset")

\* root_mean_squared_error has met slices of lengths 2 and 3, the first
\* with a NaN
C12_Witness ==
    /\ out.fn = "root_mean_squared_error"
    /\ Len(self.x) = 2
    /\ Len(self.y) = 3
    /\ is_it_nan(self.x[1])
    /\ out.ret.msg = "LengthMismatch"

\* s holds a NaN
HasNaN(s) == \E i \in 1..Len(s) : is_it_nan(s[i])

\* C13: for every non-empty x without NaN, min_max(x) returns (m, M) with
\* m the least and M the greatest element of x, whatever the magnitude of
\* the elements; it fails when x is empty or holds a NaN.
C13_MinMaxLeastGreatest ==
    (out.fn = "min_max") =>
        IF self.x = << >> \/ HasNaN(self.x)
        THEN out.ret.tag = "panic"
        ELSE /\ out.ret.tag = "val"
             /\ \E i \in 1..Len(self.x) : self.x[i] = out.ret.v[1]
             /\ \E i \in 1..Len(self.x) : self.x[i] = out.ret.v[2]
             /\ \A i \in 1..Len(self.x) :
                   /\ ~FLt(self.x[i], out.ret.v[1])
                   /\ ~FGt(self.x[i], out.ret.v[2])

\* sum of x[i] * y[i] over i..Len(x), on whole numbers
RECURSIVE Dot(_, _, _)
Dot(x, y, i) == IF i > Len(x) THEN 0 ELSE x[i].n * y[i].n + Dot(x, y, i + 1)

\* sum of x[i] over i..Len(x), on whole numbers
RECURSIVE Total(_, _)
Total(x, i) == IF i > Len(x) THEN 0 ELSE x[i].n + Total(x, i + 1)

\* n*Sxy - Sx*Sy
Covar(x, y) == Len(x) * Dot(x, y, 1) - Total(x, 1) * Total(y, 1)

\* the elements of s are all equal
IsConstant(s) == \A i \in 1..Len(s) : s[i] = s[1]

\* the equations of the least-squares slope b and intercept a
FitEquations(x, y, a, b) ==
    /\ FMul(b, Num(Covar(x, x))) = Num(Covar(x, y))
    /\ FMul(a, Num(Len(x))) = FSub(Num(Total(y, 1)), FMul(b, Num(Total(x, 1))))

\* the equation of R2, and 0 <= R2 <= 1
R2Equation(x, y, r2) ==
    /\ FMul(FMul(r2, Num(Covar(x, x))), Num(Covar(y, y)))
          = Num(Covar(x, y) * Covar(x, y))
    /\ ~is_it_nan(r2)
    /\ ~FLt(r2, Num(0))
    /\ ~FGt(r2, Num(1))

Close(a, k) == FLt(FAbs(FSub(a, Num(k))), Frac(1, 1000))

\* C15 as stated: for every non-empty x, of any length and also when all
\* its elements are equal, linear_coefficients(x, x) returns intercept 0,
\* slope 1 and R2 1 (within 1e-3).
C15_SelfFit ==
    (out.fn = "linear_coefficients" /\ self.x = self.y
        /\ Comparable(self.x, self.y)) =>
        /\ out.ret.tag = "val"
        /\ Close(out.ret.v[1], 0)
        /\ Close(out.ret.v[2], 1)
        /\ Close(out.ret.v[3], 1)

\* C15 as amended: linear_coefficients(x, x) returns intercept 0, slope 1
\* and R2 1 (within 1e-3) for every x that is not constant, and NaN for all
\* three when x is constant (length 1 included).
C15_SelfFitAmended ==
    (out.fn = "linear_coefficients" /\ self.x = self.y
        /\ Comparable(self.x, self.y)) =>
        /\ out.ret.tag = "val"
        /\ IF IsConstant(self.x)
           THEN \A k \in 1..3 : is_it_nan(out.ret.v[k])
           ELSE /\ Close(out.ret.v[1], 0)
                /\ Close(out.ret.v[2], 1)
                /\ Close(out.ret.v[3], 1)

\* linear_coefficients(x, x) has returned NaN for a constant x of length 2
C15_Witness ==
    /\ out.fn = "linear_coefficients"
    /\ self.x = self.y
    /\ Len(self.x) = 2
    /\ self.x[1] = self.x[2]
    /\ ~is_it_nan(self.x[1])
    /\ is_it_nan(out.ret.v[2])

\* C16 as stated: for every non-empty x, mean_bias_error(x, x) = 0 and
\* root_mean_squared_error(x, x) = 0.
C16_SelfErrorIsZero ==
    (out.fn \in {"mean_bias_error", "root_mean_squared_error"}
        /\ self.x = self.y /\ Len(self.x) > 0) =>
        (out.ret.tag = "val" /\ out.ret.v = Num(0))

\* C16 as amended: for every non-empty x of finite numbers both are 0; as
\* soon as x holds a NaN both are NaN.
C16_SelfErrorIsZeroAmended ==
    (out.fn \in {"mean_bias_error", "root_mean_squared_error"}
        /\ self.x = self.y /\ Len(self.x) > 0) =>
        /\ out.ret.tag = "val"
        /\ out.ret.v = IF HasNaN(self.x) THEN NaN ELSE Num(0)

\* root_mean_squared_error(x, x) has returned 0 for an x of three elements
\* that are not all equal
C16_Witness ==
    /\ out.fn = "root_mean_squared_error"
    /\ self.x = self.y
    /\ Len(self.x) = 3
    /\ self.x[1] # self.x[3]
    /\ out.ret.v = Num(0)

-----------------------------------------------------------------------------
(* Claims about repeated runs, the report destination and the diagnostic   *)
(* channel (specification Spec)                                            *)

\* the last run returned a verdict, and nothing was pushed since
LastRunStands ==
    /\ result.tag \in {"Ok", "Err"}
    /\ file.state = "written"
    /\ Len(calls) = Len(validations)

\* C17: a run of Validator::validate() leaves the title, the destination
\* path and the validations unchanged; a run that returns has invoked every
\* validation, and when it follows a run over the same validations it
\* invokes them all again and yields the same report body and verdict.
C17_RunsRepeat ==
    [][IsRun =>
          /\ title' = title
          /\ target_file' = target_file
          /\ validations' = validations
          /\ (result'.tag \in {"Ok", "Err"}) =>
                /\ calls' = [i \in 1..Len(validations) |-> i]
                /\ LastRunStands =>
                      /\ file'.body = file.body
                      /\ result' = result
                      /\ calls' = calls
      ]_vars

\* two runs over the same two failing validations have both returned Err
C17_Witness ==
    /\ runs = 2
    /\ result.tag = "Err"
    /\ file.state = "written"
    /\ calls = <<1, 2>>
    /\ Len(validations) = 2
    /\ Len(stderr) = 4

\* the positions of the events named ev in the sequence l
Positions(l, ev) == {k \in 1..Len(l) : l[k].ev = ev}

\* C18: over new -> push* -> validate the content of the report
\* destination changes only in Validator::validate(), once, after every
\* validation has returned; construction and push leave it as it was, and
\* a run in which a validation aborts has not touched it.
C18_DestinationWrittenAtEnd ==
    [][/\ (file' # file) =>
             /\ IsRun
             /\ calls' = [i \in 1..Len(validations) |-> i]
             /\ Cardinality(Positions(log', "create")) = 1
             /\ \A c \in Positions(log', "create"), k \in Positions(log', "validate") :
                   k < c
       /\ (IsRun /\ result'.msg \in StatisticsPanics) => (file' = file)
      ]_vars

\* the error summary of the outcome r, if it is an Err
SummaryOf(r) == IF is_err(r) THEN <<r.err>> ELSE << >>

\* the error summaries of the validations vs[i..] that return Err, in order
RECURSIVE SummariesFrom(_, _)
SummariesFrom(vs, i) ==
    IF i > Len(vs) THEN << >>
    ELSE SummaryOf(Validate(vs[i])) \o SummariesFrom(vs, i + 1)

\* the events named ev of the sequence l, in order
EventsOf(l, ev) == SelectSeq(l, LAMBDA x : x.ev = ev)

\* C19: a run of Validator::validate() that writes the report and returns
\* emits to stderr the error summary (second component) of each validation
\* that returned Err, once each and in push order, and nothing for an Ok;
\* every emission comes after the report is written and before the return.
C19_SummariesEmitted ==
    [][(IsRun /\ result'.tag \in {"Ok", "Err"}) =>
          /\ \A s \in {SummariesFrom(validations, 1)} :
                /\ stderr' = stderr \o s
                /\ \A emitted \in {EventsOf(log', "eprintln")} :
                      [k \in 1..Len(emitted) |-> emitted[k].e] = s
          /\ \A k \in Positions(log', "eprintln") :
                /\ \A w \in Positions(log', "write") : w < k
                /\ \A r \in Positions(log', "return") : k < r
          /\ Positions(log', "write") # {}
          /\ Positions(log', "return") = {Len(log')}
      ]_vars

\* one run has emitted the summaries of the first and third validation and
\* nothing for the second, which returned Ok
C19_Witness ==
    /\ runs = 1
    /\ Len(validations) = 3
    /\ is_err(Validate(validations[1]))
    /\ Validate(validations[2]).tag = "Ok"
    /\ is_err(Validate(validations[3]))
    /\ Validate(validations[1]).err # Validate(validations[3]).err
    /\ Len(EventsOf(log, "eprintln")) = 2
    /\ stderr = <<Validate(validations[1]).err, Validate(validations[3]).err>>

\* the String m as text: one line without arguments
Text(m) == <<Line(m, << >>)>>

\* the concatenation of the summaries in l
RECURSIVE Concat(_)
Concat(l) == IF l = << >> THEN << >> ELSE Head(l) \o Concat(Tail(l))

\* a run step in which some validation returns Err and validate() returns
FailingRun ==
    /\ IsRun
    /\ result'.tag \in {"Ok", "Err"}
    /\ \E i \in 1..Len(validations) : is_err(Validate(validations[i]))

\* C20 as stated: when at least one validation returns Err, the failure
\* that Validator::validate() returns carries the concatenation of the
\* error summaries of the failing validations.
C20_FailureCarriesSummaries ==
    [][FailingRun =>
          /\ result'.tag = "Err"
          /\ Text(result'.msg) = Concat(SummariesFrom(validations, 1))
      ]_vars

\* C20 as amended: when at least one validation returns Err, the failure
\* that Validator::validate() returns carries the literal
\* "Some validations failed..." and none of the error summaries, which go
\* to stderr only.
C20_FailureCarriesLiteral ==
    [][FailingRun =>
          \A s \in {SummariesFrom(validations, 1)} :
             /\ result'.tag = "Err"
             /\ result'.msg = "Some validations failed..."
             /\ \A k \in 1..Len(s) : \A j \in 1..Len(s[k]) :
                   s[k][j].line # result'.msg
             /\ stderr' = stderr \o s
      ]_vars

\* a run over three failing validations has returned its failure
C20_Witness ==
    /\ result.tag = "Err"
    /\ Len(validations) = 3
    /\ Len(EventsOf(log, "eprintln")) = 3
    /\ log[Len(log)].ev = "return"

-----------------------------------------------------------------------------
(* src/src/lib.rs: the methods of ValidationResult (specification          *)
(* SpecResult: each method called on every bounded ValidationResult)       *)

\* an unwrap that panics with the report fragment
unwrap_fragment(r) ==
    IF r.tag = "Err" THEN [tag |-> "panic", msg |-> r.txt]
    ELSE [tag |-> "unit", msg |-> << >>]

\* lines 266-270: if let ValidationResult::Err(_, err) = self { panic!("{}", err) }
unwrap(r) ==
    IF r.tag = "Err" THEN [tag |-> "panic", msg |-> r.err]
    ELSE [tag |-> "unit", msg |-> << >>]

\* the texts a ValidationResult may carry
Texts == SeqsUpTo({Line("a", << >>), Line("b", << >>)}, MaxLen)

ResultInit ==
    /\ AggIdle
    /\ out = NoOut
    /\ \E txt \in Texts :
          \/ self = Ok(txt, << >>)
          \/ \E err \in Texts : self = Err(txt, err, << >>)

CallIsOk ==
    /\ out.fn = "none"
    /\ out' = [fn |-> "is_ok", ret |-> is_ok(self)]
    /\ UNCHANGED <<aggVars, self>>

CallIsErr ==
    /\ out.fn = "none"
    /\ out' = [fn |-> "is_err", ret |-> is_err(self)]
    /\ UNCHANGED <<aggVars, self>>

CallUnwrap ==
    /\ out.fn = "none"
    /\ out' = [fn |-> "unwrap", ret |-> unwrap(self)]
    /\ UNCHANGED <<aggVars, self>>

ResultNext == CallIsOk \/ CallIsErr \/ CallUnwrap

SpecResult == ResultInit /\ [][ResultNext]_vars

\* C21: of a ValidationResult exactly one of is_ok() and is_err() is true,
\* is_err() being true exactly of the Err variant; unwrap() panics exactly
\* on Err, with the error summary (the second component) as its message,
\* and returns normally on Ok.
C21_ResultMethods ==
    /\ out.fn = "is_err" => /\ out.ret = (self.tag = "Err")
                            /\ out.ret # is_ok(self)
    /\ out.fn = "is_ok" => /\ out.ret = (self.tag = "Ok")
                           /\ out.ret # is_err(self)
    /\ out.fn = "unwrap" =>
          /\ out.ret.tag = "panic" <=> self.tag = "Err"
          /\ self.tag = "Err" => out.ret.msg = self.err
          /\ self.tag = "Ok" => out.ret.tag = "unit"

\* unwrap() has panicked on an Err whose fragment differs from its summary
C21_Witness ==
    /\ out.fn = "unwrap"
    /\ self.tag = "Err"
    /\ self.txt # self.err
    /\ out.ret.tag = "panic"

-----------------------------------------------------------------------------
(* src/src/stats.rs: the sample count (specification SpecCount:            *)
(* try_into_t called on lengths around 0 and around every multiple of      *)
(* 2^31, up to MaxHi * 2^31 + I32_MAX)                                     *)

MaxHi == 2

MaxNear == 20

Lengths ==
    {USize(hi, lo) : hi \in 0..MaxHi,
                     lo \in (0..MaxNear) \cup {I32_MAX - k : k \in 0..MaxNear}}

CountInit ==
    /\ AggIdle
    /\ out = NoOut
    /\ self \in Lengths

CallTryIntoT ==
    /\ out.fn = "none"
    /\ out' = [fn |-> "try_into_t", ret |-> try_into_t(self)]
    /\ UNCHANGED <<aggVars, self>>

SpecCount == CountInit /\ [][CallTryIntoT]_vars

\* C22: a length above 2^31 - 1 is rejected as TooManySamples, and a length
\* of 1..2^31 - 1 is accepted with a count equal to the length itself,
\* never a wrapped or truncated one.
C22_CountIsLength ==
    out.fn = "try_into_t" =>
        IF self.hi > 0
        THEN out.ret = Panic("TooManySamples")
        ELSE self.lo >= 1 => out.ret = Val([n |-> self.lo, d |-> 1])

\* a length of exactly 2^31 has been rejected
C22_Witness ==
    /\ out.fn = "try_into_t"
    /\ self = USize(1, 0)
    /\ out.ret.tag = "panic"

-----------------------------------------------------------------------------
(* Validator::new (specification Spec) *)

\* C23: Validator::new fails at once, at construction, when the destination
\* cannot be opened or created for writing, and then there is no Validator
\* to push to or to run; when it succeeds the Validator holds no validation.
C23_ConstructionFails ==
    [][/\ pc = "start" =>
            IF file.state = "unwritable"
            THEN /\ pc' = "aborted"
                 /\ result' = [tag |-> "panic", msg |-> "Cannot write to file"]
                 /\ runs' = 0
            ELSE /\ pc' = "ready"
                 /\ validations' = << >>
                 /\ result' = NoResult
       /\ ~(pc = "aborted" /\ runs = 0)]_vars

\* construction has failed on a destination that cannot be written
C23_Witness ==
    /\ pc = "aborted"
    /\ runs = 0
    /\ file.state = "unwritable"
    /\ result = [tag |-> "panic", msg |-> "Cannot write to file"]
    /\ validations = << >>

-----------------------------------------------------------------------------
(* src/src/lib.rs: the macros assert_close! and assert_not_close!          *)
(* (specification SpecAssert: each form called on bounded operands)        *)

\* a macro that returned without panicking
Unit == [tag |-> "unit", v |-> NaN, msg |-> ""]

\* let allowed_diff: f64 = 1e-6  (the two-argument forms)
allowed_diff == Frac(1, 1000000)

\* an assert_close! that also panics when the difference equals the threshold
assert_close_strict(left_val, right_val, allowed) ==
    IF ~FLt(FAbs(FSub(left_val, right_val)), allowed)
    THEN Panic("are not close enough") ELSE Unit

\* lines 179-191 and 192-205: if (diff > allowed_diff) { panic!(..) }
assert_close(left_val, right_val, allowed) ==
    LET diff == FAbs(FSub(left_val, right_val))
    IN  IF FGt(diff, allowed) THEN Panic("are not close enough") ELSE Unit

\* lines 218-230 and 231-244: if (diff < allowed_diff) { panic!(..) }
assert_not_close(left_val, right_val, allowed) ==
    LET diff == FAbs(FSub(left_val, right_val))
    IN  IF FLt(diff, allowed) THEN Panic("are too close") ELSE Unit

\* the operands: numbers, NaN, infinity, and the pair (1e-6, 0) whose
\* difference is the default threshold
Operands == Vals \cup {NaN, Inf(1)}

OperandPairs == (Operands \X Operands) \cup {<<allowed_diff, Num(0)>>}

Tolerances == Vals \cup {NaN, Frac(1, 2), allowed_diff}

AssertInit ==
    /\ AggIdle
    /\ out = NoOut
    /\ \E p \in OperandPairs, d \in Tolerances :
          self = [l |-> p[1], r |-> p[2], d |-> d]

CallAssertClose ==
    /\ out.fn = "none"
    /\ out' = [fn |-> "assert_close", d |-> self.d,
               ret |-> assert_close(self.l, self.r, self.d)]
    /\ UNCHANGED <<aggVars, self>>

CallAssertClose2 ==
    /\ out.fn = "none"
    /\ out' = [fn |-> "assert_close", d |-> allowed_diff,
               ret |-> assert_close(self.l, self.r, allowed_diff)]
    /\ UNCHANGED <<aggVars, self>>

CallAssertNotClose ==
    /\ out.fn = "none"
    /\ out' = [fn |-> "assert_not_close", d |-> self.d,
               ret |-> assert_not_close(self.l, self.r, self.d)]
    /\ UNCHANGED <<aggVars, self>>

CallAssertNotClose2 ==
    /\ out.fn = "none"
    /\ out' = [fn |-> "assert_not_close", d |-> allowed_diff,
               ret |-> assert_not_close(self.l, self.r, allowed_diff)]
    /\ UNCHANGED <<aggVars, self>>

AssertNext ==
    CallAssertClose \/ CallAssertClose2 \/ CallAssertNotClose \/ CallAssertNotClose2

SpecAssert == AssertInit /\ [][AssertNext]_vars

\* a == b of PartialEq for f64: false as soon as one side is NaN
FEq(a, b) == ~is_it_nan(a) /\ ~is_it_nan(b) /\ a = b

\* |l - r| of the operands in `self`
Distance == FAbs(FSub(self.l, self.r))

\* the macro that was not called, on the same operands and threshold
Counterpart ==
    IF out.fn = "assert_close" THEN assert_not_close(self.l, self.r, out.d)
    ELSE assert_close(self.l, self.r, out.d)

\* assert_close! panics iff |l - r| > d, assert_not_close! iff |l - r| < d,
\* and never both
AbortsIff ==
    /\ out.fn = "assert_close" => (IsPanic(out.ret) <=> FGt(Distance, out.d))
    /\ out.fn = "assert_not_close" => (IsPanic(out.ret) <=> FLt(Distance, out.d))
    /\ out.fn \in {"assert_close", "assert_not_close"} =>
          ~(IsPanic(out.ret) /\ IsPanic(Counterpart))

\* C24 (as stated): assert_close!(l, r, d) aborts iff |l - r| > d and
\* assert_not_close!(l, r, d) iff |l - r| < d, with d = 1e-6 in the
\* two-argument forms; at least one of the two passes, and both pass
\* exactly when |l - r| = d.
C24_BothPassIffEqual ==
    /\ AbortsIff
    /\ out.fn \in {"assert_close", "assert_not_close"} =>
          ((~IsPanic(out.ret) /\ ~IsPanic(Counterpart)) <=> FEq(Distance, out.d))

\* C24 (amended): the same, except that both macros pass exactly when
\* |l - r| = d or one of |l - r| and d is NaN.
C24_BothPassIffEqualOrNaN ==
    /\ AbortsIff
    /\ out.fn \in {"assert_close", "assert_not_close"} =>
          ((~IsPanic(out.ret) /\ ~IsPanic(Counterpart))
              <=> (FEq(Distance, out.d) \/ is_it_nan(Distance) \/ is_it_nan(out.d)))

\* the two-argument assert_close! has passed on a difference of exactly 1e-6
C24_Witness ==
    /\ out.fn = "assert_close"
    /\ self.l = allowed_diff
    /\ self.r = Num(0)
    /\ out.d = allowed_diff
    /\ out.ret = Unit
    /\ ~IsPanic(Counterpart)

-----------------------------------------------------------------------------
(* linear_coefficients on an x without spread (specification SpecStats) *)

-----------------------------------------------------------------------------
(* ScatterValidator on a regression without spread (specification          *)
(* SpecScatter)                                                            *)

-----------------------------------------------------------------------------
(* The CustomValidator of the documentation under Validator::validate()    *)
(* (specification Spec)                                                    *)

\* validations[i] is a CustomValidator whose expected and found differ
FailingCustom(i) ==
    /\ validations[i].kind = "custom"
    /\ validations[i].cexpected # validations[i].cfound

\* C27: when a CustomValidator with expected # found is run by
\* Validator::validate(), the text it builds for the report (the one with
\* "Failed...") is written into the report, and the text it builds as the
\* error message is printed to stderr.
C27_CustomTextsRouted ==
    [][(IsRun /\ result'.tag \in {"Ok", "Err"}) =>
          \A i \in 1..Len(validations) :
             FailingCustom(i) =>
                /\ \E k \in 1..Len(file'.body) :
                      file'.body[k].text = "Failed... aren't equal"
                /\ \E k \in 1..Len(stderr') :
                      stderr'[k] = <<Line("aren't equal",
                                          <<Num(validations[i].cexpected),
                                            Num(validations[i].cfound)>>)>>
      ]_vars

-----------------------------------------------------------------------------
(* ValidatorWrapper (specification SpecValidate) *)

\* C28: ValidatorWrapper::validate builds the validator once and validates
\* it once, returns the variant the validator returned (Ok stays Ok, Err
\* stays Err) with the error summary unchanged, and changes the report
\* fragment only by putting the title and the description in front of it.
C28_WrapperKeepsOutcome ==
    (out.fn = "wrapper") =>
        \A inner \in {Validate(self)} :
           /\ out.ret.tag = inner.tag
           /\ out.ret.err = inner.err
           /\ out.ret.stats = inner.stats
           /\ out.ret.msg = inner.msg
           /\ inner.tag \in {"Ok", "Err"} =>
                 /\ out.ret.txt[1] = Heading(2, "Some Title")
                 /\ out.ret.txt[2] = Line("The Description", << >>)
                 /\ SubSeq(out.ret.txt, 4, Len(out.ret.txt)) = inner.txt

\* a wrapped SeriesValidator that breaks a threshold has returned Err
C28_Witness ==
    /\ out.fn = "wrapper"
    /\ self.kind = "series"
    /\ out.ret.tag = "Err"
    /\ out.ret.stats # << >>
    /\ out.ret.err # << >>
    /\ Len(out.ret.txt) > 3

-----------------------------------------------------------------------------
(* The deltas of ScatterValidator left unset (specification SpecScatter) *)

\* the 0.05 of the documentation of allowed_intersect_delta and
\* allowed_slope_delta
DocumentedDelta == Frac(1, 20)

\* the summary of the outcome r has a line with the text m
Summarised(r, m) == \E k \in 1..Len(r.err) : r.err[k].line = m

\* C29: a ScatterValidator whose allowed_intersect_delta (resp.
\* allowed_slope_delta) is unset applies a maximum allowed difference of
\* 0.05 between the intersect (resp. slope) found and the expected one.
C29_UnsetDeltaDefaults ==
    (out.fn = "validate" /\ out.ret.tag \in {"Ok", "Err"}
        /\ Len(self.expected) = Len(self.found)) =>
        \A fit \in {linear_coefficients(self.expected, self.found)} :
           /\ (~is_some(self.allowed_intersect_delta)
                 /\ FGt(FAbs(FSub(fit.v[1],
                                IF is_some(self.expected_intersect)
                                THEN self.expected_intersect[1] ELSE Num(0))),
                       DocumentedDelta)) =>
                 Summarised(out.ret,
                            "Intersect difference is higher than the allowed value")
           /\ (~is_some(self.allowed_slope_delta)
                 /\ FGt(FAbs(FSub(fit.v[2],
                                IF is_some(self.expected_slope)
                                THEN self.expected_slope[1] ELSE Num(1))),
                       DocumentedDelta)) =>
                 Summarised(out.ret,
                            "Slope difference is higher than the allowed value")

=============================================================================
